---- MODULE Spec2Model ----
(***************************************************************************)
(* ESP-SPI-Flasher firmware (src/SPI-Flasher/src/main.cpp): the serial     *)
(* framer (handleSerialMessage), the dispatcher (handleData), its handlers *)
(* and resetState, driven by a host that sends framed base64 commands,     *)
(* against a flash device whose error status is chosen by the environment. *)
(***************************************************************************)
EXTENDS Integers, Sequences, FiniteSets, TLC

(* ------------------------------------------------------------------ *)
(* Program constants                                                   *)
(* ------------------------------------------------------------------ *)
DATA_CHUNK_SIZE == 2048
\* (int)(DATA_CHUNK_SIZE / .75) + 5
MESSAGE_MAX_SIZE == ((DATA_CHUNK_SIZE * 4) \div 3) + 5
INITIAL_SERIAL_BAUD_RATE == 9600
\* the ceiling handleSetBaud compares with
MaxBaudRate == 921600
\* the block size eraseChip steps by
EraseBlockSize == 32768
\* '\n'
endMarker == 10
\* INT32_MAX. A uint32_t is held as the int32_t with the same 32 bits: v itself
\* below 2^31, v - 2^32 from 2^31 on.
MaxInt32 == 2147483647

\* enum states
NONE == "NONE"
SET_BAUD == "SET_BAUD"
SET_ERASE == "SET_ERASE"
SET_WRITE == "SET_WRITE"
SET_FILE_SIZE == "SET_FILE_SIZE"
RECV_FLASH_DATA == "RECV_FLASH_DATA"
DO_ERASE == "DO_ERASE"
DO_FLASH == "DO_FLASH"
RESET_STATE == "RESET_STATE"
SEND_FLASH_INFO == "SEND_FLASH_INFO"

\* the selector bytes of handleSerialMessage's switch: ! @ # $ % ^ & * (
SelectorOf ==
  [c \in {33, 64, 35, 36, 37, 94, 38, 42, 40} |->
     CASE c = 33 -> SET_BAUD
       [] c = 64 -> SET_ERASE
       [] c = 35 -> SET_WRITE
       [] c = 36 -> SET_FILE_SIZE
       [] c = 37 -> RECV_FLASH_DATA
       [] c = 94 -> DO_ERASE
       [] c = 38 -> DO_FLASH
       [] c = 42 -> RESET_STATE
       [] c = 40 -> SEND_FLASH_INFO]

SelectorBytes == DOMAIN SelectorOf

\* the byte the host sends to select a command
ByteOf(cmd) == CHOOSE c \in SelectorBytes : SelectorOf[c] = cmd

(* ------------------------------------------------------------------ *)
(* Bounds of the model                                                 *)
(* ------------------------------------------------------------------ *)
\* frames the host sends in one run, when it sends them as it likes; a host
\* that follows a script sends the frames of the script
MaxFrames == 2
\* bytes the transport holds unread
MaxRx == 1
\* whole erase blocks of the device
MaxBlocks == 3

(* ------------------------------------------------------------------ *)
(* Helpers                                                             *)
(* ------------------------------------------------------------------ *)
Min(a, b) == IF a < b THEN a ELSE b

Pow2(n) == 2 ^ n

\* a + b in uint32_t
UAdd32(a, b) ==
  IF a >= 0 /\ b >= 0 /\ a > MaxInt32 - b
  THEN (a - MaxInt32 - 1) + (b - MaxInt32 - 1)
  ELSE IF a < 0 /\ b < 0 /\ a < (-MaxInt32 - 1) - b
  THEN (a + MaxInt32 + 1) + (b + MaxInt32 + 1)
  ELSE a + b

\* a > b in uint32_t
UGt(a, b) == IF (a < 0) = (b < 0) THEN a > b ELSE a < 0

\* the four bytes of a uint32_t, least significant first
Bytes32(v) ==
  LET w == IF v >= 0 THEN v ELSE v + MaxInt32 + 1
  IN [i \in 1..4 |->
        IF i = 4 /\ v < 0 THEN (w \div Pow2(24)) + 128
        ELSE (w \div Pow2(8 * (i - 1))) % 256]

\* a response line: its one-character tag, its text and the numbers printed in it
Line(tag, text, args) == [tag |-> tag, text |-> text, args |-> args]

(* ------------------------------------------------------------------ *)
(* base64 codec (base64.hpp) and the integer conversion                *)
(* ------------------------------------------------------------------ *)
\* base64_to_binary: 255 for a byte outside the alphabet
base64_to_binary(c) ==
  IF 65 <= c /\ c <= 90 THEN c - 65
  ELSE IF 97 <= c /\ c <= 122 THEN c - 71
  ELSE IF 48 <= c /\ c <= 57 THEN c + 4
  ELSE IF c = 43 \/ c = 45 THEN 62
  ELSE IF c = 47 \/ c = 95 THEN 63
  ELSE 255

\* the number of leading bytes of input[1..length] that are base64 characters
ValidPrefix(input, length) ==
  LET bad == {i \in 1..length : base64_to_binary(input[i]) >= 64}
  IN IF bad = {} THEN length
     ELSE (CHOOSE i \in bad : \A j \in bad : i <= j) - 1

\* decode_base64_length
decode_base64_length(input, length) ==
  LET n == ValidPrefix(input, length)
  IN (n \div 4) * 3 + (IF n % 4 # 0 THEN (n % 4) - 1 ELSE 0)

\* decode_base64: the bytes written to output[0..], in order
decode_base64(input, length) ==
  LET outLen == decode_base64_length(input, length)
      s(i) == base64_to_binary(input[i])
  IN [j \in 1..outLen |->
        LET g == 4 * ((j - 1) \div 3)
            r == (j - 1) % 3
        IN CASE r = 0 -> (s(g + 1) * 4 + (s(g + 2) \div 16)) % 256
             [] r = 1 -> (s(g + 2) * 16 + (s(g + 3) \div 4)) % 256
             [] r = 2 -> (s(g + 3) * 64 + s(g + 4)) % 256]

\* What `byte << (i * 8)` yields when i * 8 >= 32, which C++ leaves undefined:
\* 0 (the bits are shifted out) or the byte shifted by the count modulo 32. A
\* build decides it element by element (a vectorised loop gives 0 in its
\* lanes and the wrapped count in its scalar tail), so the outcome of one call
\* is the set of the elements, counted from 1, whose count wraps. An element
\* that is 0 adds 0 either way.
ShiftModes(byteArray, length) ==
  SUBSET {i \in 5..length : byteArray[i] # 0}

\* byte << n, as the uint32_t it is added as; wraps tells what a count of 32
\* or more does
ShiftLeft(b, n, wraps) ==
  IF n < 24 THEN b * Pow2(n)
  ELSE IF n = 24 THEN (IF b >= 128 THEN b - 256 ELSE b) * Pow2(24)
  ELSE IF ~wraps THEN 0
  ELSE IF n % 32 = 24 THEN (IF b >= 128 THEN b - 256 ELSE b) * Pow2(24)
  ELSE b * Pow2(n % 32)

RECURSIVE SumShifted(_, _, _, _)
\* the sum, in uint32_t, of byteArray[i] << (i * 8) over the indices lo..hi
\* (counted from 1), split in halves so the evaluation stays shallow
SumShifted(byteArray, lo, hi, mode) ==
  IF lo > hi THEN 0
  ELSE IF lo = hi THEN ShiftLeft(byteArray[lo], (lo - 1) * 8, lo \in mode)
  ELSE LET mid == (lo + hi) \div 2
       IN UAdd32(SumShifted(byteArray, lo, mid, mode),
                 SumShifted(byteArray, mid + 1, hi, mode))

\* byteArrayToInt: little-endian sum, in uint32_t
byteArrayToInt(byteArray, length, mode) ==
  IF length = 0 THEN 0 ELSE SumShifted(byteArray, 1, length, mode)

(* ------------------------------------------------------------------ *)
(* The host's side of the wire protocol                                *)
(* ------------------------------------------------------------------ *)
\* the base64 character of a 6-bit value
Base64Char(v) ==
  IF v < 26 THEN 65 + v
  ELSE IF v < 52 THEN 71 + v
  ELSE IF v < 62 THEN v - 4
  ELSE IF v = 62 THEN 43
  ELSE 47

\* '='
PadChar == Base64Char(63) + 14

\* standard base64 of a byte sequence, with padding
Base64Encode(bytes) ==
  LET n == Len(bytes)
      groups == (n + 2) \div 3
      b(i) == IF i <= n THEN bytes[i] ELSE 0
  IN [k \in 1..(4 * groups) |->
        LET g == 3 * ((k - 1) \div 4)
            r == (k - 1) % 4
        IN IF g + r > n THEN PadChar
           ELSE CASE r = 0 -> Base64Char(b(g + 1) \div 4)
                  [] r = 1 -> Base64Char((b(g + 1) % 4) * 16 + (b(g + 2) \div 16))
                  [] r = 2 -> Base64Char((b(g + 2) % 16) * 4 + (b(g + 3) \div 64))
                  [] r = 3 -> Base64Char(b(g + 3) % 64)]

\* the little-endian bytes of v >= 0, n of them
IntToBytes(v, n) == [i \in 1..n |-> (v \div Pow2(8 * (i - 1))) % 256]

\* one frame: an optional selector byte, the payload, the terminator
Frame(sel, payload) == sel \o payload \o <<endMarker>>

Sel(cmd) == <<ByteOf(cmd)>>

\* the chunk of file data the host transfers
HostChunk == <<1, 2, 3>>

\* the payload filler of an over-long frame
Filler == Base64Char(0)

\* the largest chunk the host transfers: DATA_CHUNK_SIZE bytes, all zero
HostMaxChunk == [i \in 1..DATA_CHUNK_SIZE |-> 0]


(* ------------------------------------------------------------------ *)
(* State                                                               *)
(* ------------------------------------------------------------------ *)
VARIABLES
  state,               \* states state: the pending command
  shouldDoErase,       \* bool shouldDoErase
  shouldDoWrite,       \* bool shouldDoWrite
  fileSize,            \* uint32_t fileSize
  flashSize,           \* uint32_t flashSize, the capacity read in setup()
  currentFlashOffset,  \* uint32_t currentFlashOffset: the write cursor
  receivedMessage,     \* byte receivedMessage[]: the bytes stored so far, from index 0
  messageLength,       \* messagelen_t messageLength
  currRecvDataPos,     \* messagelen_t currRecvDataPos: the fill cursor
  dataNeedsHandling,   \* bool dataNeedsHandling: payload ready
  dataBuffer,          \* byte dataBuffer[]: the bytes stored so far, from index 0
  dataLength,          \* uint32_t dataLength
  dataPastEnd,         \* the bytes of memory after dataBuffer's last element
  baud,                \* the rate Serial is open at
  rx,                  \* Serial's receive queue
  out,                 \* the lines the latest step printed
  serialLog,           \* the Serial.end()/Serial.begin() calls of the latest step
  flashLog,            \* the flash calls of the latest step
  lastOp,              \* the latest step: "recv", or the command handleData dispatched
  lastStore,           \* the index the latest step stored a payload byte at, or -1
  lastDigest,          \* the bytes whose digest was printed most recently
  closedFrame,         \* the frame the latest terminator closed, until the framer
                       \* moves on after its dispatch
  halted,              \* the firmware has stopped on a fault
  tx,                  \* host: what is left of the frame being sent
  framesLeft           \* host: frames it may still start

vars == <<state, shouldDoErase, shouldDoWrite, fileSize, flashSize, currentFlashOffset,
          receivedMessage, messageLength, currRecvDataPos, dataNeedsHandling,
          dataBuffer, dataLength, dataPastEnd, baud, rx, out, serialLog, flashLog,
          lastOp, lastStore, lastDigest, closedFrame, halted, tx, framesLeft>>

hostVars == <<tx, framesLeft>>

(* ------------------------------------------------------------------ *)
(* Environment: the flash device and the host                          *)
(* ------------------------------------------------------------------ *)
\* flash.getCapacity(): whole blocks, and one byte more than whole blocks
Capacities == {EraseBlockSize * MaxBlocks, EraseBlockSize * MaxBlocks + 1}

\* flash.error(): zero is success
FlashErrors == {0, 11}

\* flash.getJEDECID(): zero when the device does not answer
JEDECValues == {0, 15679510}

\* the largest number of bytes decode_base64 yields for a payload that fits the buffer
MaxDecoded == (MESSAGE_MAX_SIZE \div 4) * 3 + (MESSAGE_MAX_SIZE % 4) - 1

\* What the host has left to send: the bytes pre, then fill filler bytes, then
\* the bytes post; before it begins post it may send up to extra more filler
\* bytes. A host that waits starts a frame only once the firmware has handled
\* the one before.
Script(pre, fill, extra, post, wait) ==
  [pre |-> pre, fill |-> fill, extra |-> extra, post |-> post, wait |-> wait]

Plain(frame) == Script(frame, 0, 0, <<>>, FALSE)

NoScript == Plain(<<>>)

TxEmpty(t) == t.pre = <<>> /\ t.fill = 0 /\ t.post = <<>>

NextByte(t) ==
  IF t.pre # <<>> THEN Head(t.pre)
  ELSE IF t.fill > 0 THEN Filler
  ELSE Head(t.post)

Rest(t) ==
  IF t.pre # <<>> THEN [t EXCEPT !.pre = Tail(t.pre)]
  ELSE IF t.fill > 0 THEN [t EXCEPT !.fill = t.fill - 1]
  ELSE [t EXCEPT !.post = Tail(t.post), !.extra = 0]

\* the frames the host chooses from, for a device of capacity cap
HostFrames(cap) ==
  { Frame(Sel(SET_BAUD), Base64Encode(IntToBytes(MaxBaudRate, 3))),
    Frame(Sel(SET_BAUD), Base64Encode(IntToBytes(MaxBaudRate + 1, 3))),
    Frame(Sel(SET_ERASE), Base64Encode(<<1>>)),
    Frame(Sel(SET_WRITE), Base64Encode(<<1>>)),
    Frame(Sel(SET_FILE_SIZE), Base64Encode(IntToBytes(cap, 3))),
    Frame(Sel(SET_FILE_SIZE), Base64Encode(IntToBytes(cap + 1, 3))),
    Frame(Sel(RECV_FLASH_DATA), Base64Encode(HostChunk)),
    Frame(Sel(RECV_FLASH_DATA), <<>>),
    Frame(Sel(DO_ERASE), <<>>),
    Frame(Sel(DO_FLASH), <<>>),
    Frame(Sel(RESET_STATE), <<>>),
    Frame(Sel(SEND_FLASH_INFO), <<>>),
    Frame(<<>>, <<>>) }

\* A long chunk frame, sent by a host that waits, after it has set the erase
\* flag and the file size: the encoding of DATA_CHUNK_SIZE zero bytes, with up
\* to four filler bytes more before its padding character; with four, the
\* padding character is one byte more than the buffer holds.
FloodScript(cap) ==
  Script(Frame(Sel(SET_ERASE), Base64Encode(<<1>>))
           \o Frame(Sel(SET_FILE_SIZE), Base64Encode(IntToBytes(cap, 3)))
           \o Sel(RECV_FLASH_DATA),
         MESSAGE_MAX_SIZE - 4, 4, <<PadChar, endMarker>>, TRUE)

\* A transfer by a host that waits for each frame to be handled: a chunk, a
\* change of rate, the write, a second do-flash and a reset.
SessionScript ==
  Script(Frame(Sel(RECV_FLASH_DATA), Base64Encode(HostChunk))
           \o Frame(Sel(SET_BAUD), Base64Encode(IntToBytes(MaxBaudRate, 3)))
           \o Frame(Sel(DO_FLASH), <<>>)
           \o Frame(Sel(DO_FLASH), <<>>)
           \o Frame(Sel(RESET_STATE), <<>>),
         0, 0, <<>>, TRUE)

\* An over-long set-erase-flag frame, sent by a host that waits, and a
\* do-flash after it: the payload is MESSAGE_MAX_SIZE base64 characters, the
\* last three of them not filler, so that the last two bytes it decodes to,
\* which land beyond dataBuffer, are not zero.
OverlongFlagScript ==
  Script(Sel(SET_ERASE), MESSAGE_MAX_SIZE - 3, 0,
         <<Base64Char(1), Base64Char(1), Base64Char(1), endMarker>>
           \o Frame(Sel(DO_FLASH), <<>>),
         TRUE)

\* the bytes t has left to send, not counting the optional filler
Remaining(t) == Len(t.pre) + t.fill + Len(t.post)

\* the j-th of them
ByteAt(t, j) ==
  IF j <= Len(t.pre) THEN t.pre[j]
  ELSE IF j <= Len(t.pre) + t.fill THEN Filler
  ELSE t.post[j - Len(t.pre) - t.fill]

\* t once its next k bytes were sent
Sent(t, k) ==
  IF k <= Len(t.pre) THEN [t EXCEPT !.pre = SubSeq(t.pre, k + 1, Len(t.pre))]
  ELSE IF k <= Len(t.pre) + t.fill
  THEN [t EXCEPT !.pre = <<>>, !.fill = Len(t.pre) + t.fill - k]
  ELSE [t EXCEPT !.pre = <<>>, !.fill = 0, !.extra = 0,
                 !.post = SubSeq(t.post, k - Len(t.pre) - t.fill + 1, Len(t.post))]

\* how many of its next bytes the host may send while the firmware is busy: a
\* host that waits sends no selector then
CutPoints(t) ==
  {k \in 1..Remaining(t) :
     t.wait => \A j \in 1..k : ByteAt(t, j) \notin SelectorBytes}

\* The host sends while the firmware waits inside a handler, and what it
\* sends is lost: some of the bytes left of the frame in progress, or all of
\* them and then whole frames and the first bytes of one more, which is cut
\* in two wherever the wait ends.
SentDuringWait ==
  \/ /\ \E k \in CutPoints(tx) : tx' = Sent(tx, k)
     /\ UNCHANGED framesLeft
  \/ /\ ~tx.wait
     /\ \E n \in 1..framesLeft :
          /\ framesLeft' = framesLeft - n
          /\ \E f \in HostFrames(flashSize) :
               \E k \in 1..Len(f) : tx' = Sent(Plain(f), k)

\* the firmware has handled every frame sent so far
Idle == rx = <<>> /\ ~dataNeedsHandling

\* The host puts the next byte of its frame on the wire; with no frame in
\* progress it starts one. A script is only begun first, and is all that host
\* sends.
HostSend ==
  /\ Len(rx) < MaxRx
  /\ \/ /\ ~TxEmpty(tx)
        /\ (tx.wait /\ NextByte(tx) \in SelectorBytes) => Idle
        /\ rx' = Append(rx, NextByte(tx))
        /\ tx' = Rest(tx)
        /\ UNCHANGED framesLeft
     \/ /\ tx.pre = <<>> /\ tx.fill = 0 /\ tx.post # <<>> /\ tx.extra > 0
        /\ rx' = Append(rx, Filler)
        /\ tx' = [tx EXCEPT !.extra = tx.extra - 1]
        /\ UNCHANGED framesLeft
     \/ /\ TxEmpty(tx)
        /\ framesLeft > 0
        /\ \E f \in HostFrames(flashSize) :
             /\ rx' = Append(rx, Head(f))
             /\ tx' = Plain(Tail(f))
        /\ framesLeft' = framesLeft - 1
     \/ /\ TxEmpty(tx)
        /\ framesLeft = MaxFrames
        /\ \E script \in {FloodScript(flashSize), OverlongFlagScript, SessionScript} :
             /\ rx' = Append(rx, NextByte(script))
             /\ tx' = Rest(script)
        /\ framesLeft' = 0
  /\ UNCHANGED <<state, shouldDoErase, shouldDoWrite, fileSize, flashSize,
                 currentFlashOffset, receivedMessage, messageLength, currRecvDataPos,
                 dataNeedsHandling, dataBuffer, dataLength, dataPastEnd, baud, out,
                 serialLog, flashLog, lastOp, lastStore, lastDigest, closedFrame,
                 halted>>

\* A closed frame: the pending command and the payload as they stood when the
\* terminator was consumed, and the step the firmware had taken just before
ClosedFrame(cmd, payload, after) == [cmd |-> cmd, payload |-> payload, after |-> after]

\* no frame was closed, or the framer has moved on since its dispatch
NoFrame == ClosedFrame(NONE, <<>>, "setup")

\* the closed frame is followed while it awaits its dispatch
FrameFollowed == IF dataNeedsHandling THEN closedFrame ELSE NoFrame

(* ------------------------------------------------------------------ *)
(* setup()                                                             *)
(* ------------------------------------------------------------------ *)
Init ==
  /\ state = NONE
  /\ shouldDoErase = FALSE
  /\ shouldDoWrite = FALSE
  /\ fileSize = 0
  /\ flashSize \in Capacities
  /\ currentFlashOffset = 0
  /\ receivedMessage = <<>>
  /\ messageLength = 0
  /\ currRecvDataPos = 0
  /\ dataNeedsHandling = FALSE
  /\ dataBuffer = <<>>
  /\ dataLength = 0
  /\ dataPastEnd = [i \in 1..(MaxDecoded - DATA_CHUNK_SIZE) |-> 0]
  /\ baud = INITIAL_SERIAL_BAUD_RATE
  /\ rx = <<>>
  /\ out = <<>>
  /\ serialLog = <<>>
  /\ flashLog = <<>>
  /\ lastOp = "setup"
  /\ lastStore = -1
  /\ lastDigest = <<>>
  /\ closedFrame = NoFrame
  /\ halted = FALSE
  /\ tx = NoScript
  /\ framesLeft = MaxFrames


(* ------------------------------------------------------------------ *)
(* resetState()                                                        *)
(* ------------------------------------------------------------------ *)
SerialEnd == [op |-> "end", rate |-> 0]

SerialBegin(rate) == [op |-> "begin", rate |-> rate]

\* Serial.end() may discard what the receive queue q holds
AfterEnd(q) == {q, <<>>}

\* Serial.end() and Serial.begin() at the end of a handler's work, which in
\* resetState is a delay(1000): the queue is q when the handler begins. Either
\* the host sends nothing meanwhile, or what it sends is in the queue when
\* Serial.end() discards it.
WaitThenEnd(q) ==
  \/ /\ rx' \in AfterEnd(q)
     /\ UNCHANGED hostVars
  \/ /\ rx' = <<>>
     /\ SentDuringWait

\* resetState with the two flags left as they are
resetState_keepFlags(q) ==
  /\ serialLog' = <<SerialEnd, SerialBegin(INITIAL_SERIAL_BAUD_RATE)>>
  /\ baud' = INITIAL_SERIAL_BAUD_RATE
  /\ WaitThenEnd(q)
  /\ state' = NONE
  /\ UNCHANGED <<shouldDoErase, shouldDoWrite>>
  /\ fileSize' = 0
  /\ currRecvDataPos' = 0
  /\ messageLength' = 0
  /\ dataNeedsHandling' = FALSE
  /\ UNCHANGED halted

resetState(q) ==
  /\ serialLog' = <<SerialEnd, SerialBegin(INITIAL_SERIAL_BAUD_RATE)>>
  /\ baud' = INITIAL_SERIAL_BAUD_RATE
  /\ WaitThenEnd(q)
  /\ state' = NONE
  /\ shouldDoErase' = FALSE
  /\ shouldDoWrite' = FALSE
  /\ fileSize' = 0
  /\ currRecvDataPos' = 0
  /\ messageLength' = 0
  /\ dataNeedsHandling' = FALSE
  /\ UNCHANGED halted

\* a step that leaves the transport alone
noSerial == serialLog' = <<>> /\ UNCHANGED <<baud, rx>>

(* ------------------------------------------------------------------ *)
(* handleSerialMessage(): one pass of its while loop per step          *)
(* ------------------------------------------------------------------ *)
OverflowLine == Line("!", "ERROR: Message overflowed buffer", <<>>)

\* RecvSelector with a pending command kept until it is dispatched
RecvSelector_keepPending ==
  /\ ~halted
  /\ rx # <<>>
  /\ Head(rx) \in SelectorBytes
  /\ state' = IF state = NONE THEN SelectorOf[Head(rx)] ELSE state
  /\ rx' = Tail(rx)
  /\ out' = <<>>
  /\ serialLog' = <<>>
  /\ flashLog' = <<>>
  /\ lastOp' = "recv"
  /\ lastStore' = -1
  /\ UNCHANGED <<shouldDoErase, shouldDoWrite, fileSize, flashSize, currentFlashOffset,
                 receivedMessage, messageLength, currRecvDataPos, dataNeedsHandling,
                 dataBuffer, dataLength, dataPastEnd, baud, lastDigest, halted,
                 hostVars>>
  /\ closedFrame' = FrameFollowed

\* case '!' ... case '(': the selector replaces the pending command
RecvSelector ==
  /\ ~halted
  /\ rx # <<>>
  /\ Head(rx) \in SelectorBytes
  /\ state' = SelectorOf[Head(rx)]
  /\ rx' = Tail(rx)
  /\ out' = <<>>
  /\ serialLog' = <<>>
  /\ flashLog' = <<>>
  /\ lastOp' = "recv"
  /\ lastStore' = -1
  /\ UNCHANGED <<shouldDoErase, shouldDoWrite, fileSize, flashSize, currentFlashOffset,
                 receivedMessage, messageLength, currRecvDataPos, dataNeedsHandling,
                 dataBuffer, dataLength, dataPastEnd, baud, lastDigest, halted,
                 hostVars>>
  /\ closedFrame' = FrameFollowed

\* RecvEndMarker with the pending command cleared by the terminator
RecvEndMarker_clearPending ==
  /\ ~halted
  /\ rx # <<>>
  /\ Head(rx) = endMarker
  /\ messageLength' = currRecvDataPos
  /\ currRecvDataPos' = 0
  /\ dataNeedsHandling' = TRUE
  /\ state' = NONE
  /\ rx' = Tail(rx)
  /\ out' = <<>>
  /\ serialLog' = <<>>
  /\ flashLog' = <<>>
  /\ lastOp' = "recv"
  /\ lastStore' = -1
  /\ closedFrame' = ClosedFrame(state, SubSeq(receivedMessage, 1, currRecvDataPos),
                                lastOp)
  /\ UNCHANGED <<shouldDoErase, shouldDoWrite, fileSize, flashSize,
                 currentFlashOffset, receivedMessage, dataBuffer, dataLength,
                 dataPastEnd, baud, lastDigest, halted, hostVars>>

\* case endMarker: the payload is closed
RecvEndMarker ==
  /\ ~halted
  /\ rx # <<>>
  /\ Head(rx) = endMarker
  /\ messageLength' = currRecvDataPos
  /\ currRecvDataPos' = 0
  /\ dataNeedsHandling' = TRUE
  /\ rx' = Tail(rx)
  /\ out' = <<>>
  /\ serialLog' = <<>>
  /\ flashLog' = <<>>
  /\ lastOp' = "recv"
  /\ lastStore' = -1
  /\ closedFrame' = ClosedFrame(state, SubSeq(receivedMessage, 1, currRecvDataPos),
                                lastOp)
  /\ UNCHANGED <<state, shouldDoErase, shouldDoWrite, fileSize, flashSize,
                 currentFlashOffset, receivedMessage, dataBuffer, dataLength,
                 dataPastEnd, baud, lastDigest, halted, hostVars>>

\* receivedMessage[pos] = b, for pos inside the array
StoreByte(buf, pos, b) ==
  IF pos < Len(buf) THEN [buf EXCEPT ![pos + 1] = b] ELSE Append(buf, b)

\* the test that follows the store and the increment
Overflowed(pos) == pos > MESSAGE_MAX_SIZE

\* default: the byte is stored at the fill cursor, the cursor advances, and
\* only then is it compared with the capacity. A store at index
\* MESSAGE_MAX_SIZE lands outside the array, in the padding or the object
\* laid out after it (messageLength, in declaration order); resetState()
\* rewrites that object in the same pass.
RecvPayload ==
  /\ ~halted
  /\ rx # <<>>
  /\ Head(rx) \notin SelectorBytes
  /\ Head(rx) # endMarker
  /\ lastStore' = currRecvDataPos
  /\ receivedMessage' = IF currRecvDataPos < MESSAGE_MAX_SIZE
                        THEN StoreByte(receivedMessage, currRecvDataPos, Head(rx))
                        ELSE receivedMessage
  /\ IF Overflowed(currRecvDataPos + 1)
     THEN /\ out' = <<OverflowLine>>
          /\ resetState(Tail(rx))
     ELSE /\ out' = <<>>
          /\ currRecvDataPos' = currRecvDataPos + 1
          /\ rx' = Tail(rx)
          /\ serialLog' = <<>>
          /\ UNCHANGED <<state, shouldDoErase, shouldDoWrite, fileSize, messageLength,
                         dataNeedsHandling, baud, halted, hostVars>>
  /\ flashLog' = <<>>
  /\ lastOp' = "recv"
  /\ closedFrame' = FrameFollowed
  /\ UNCHANGED <<flashSize, currentFlashOffset, dataBuffer, dataLength, dataPastEnd,
                 lastDigest>>

(* ------------------------------------------------------------------ *)
(* The decode into dataBuffer, shared by b64ToBytes and b64ToInt       *)
(* ------------------------------------------------------------------ *)
\* the bytes decode_base64 writes for the payload being handled
Decoded == decode_base64(receivedMessage, messageLength)

\* What lies after dataBuffer, which the language leaves to the build: padding;
\* dataLength, the next object in declaration order; or the one byte of
\* dataNeedsHandling and padding after it.
Neighbours == {"padding", "dataLength", "dataNeedsHandling"}

\* dataBuffer after output[0..n-1] was written
StoreDecoded(buf, bytes) ==
  LET n == Min(Len(bytes), DATA_CHUNK_SIZE)
  IN [i \in 1..(IF Len(buf) > n THEN Len(buf) ELSE n) |->
        IF i <= n THEN bytes[i] ELSE buf[i]]

\* the memory after dataBuffer once the bytes beyond its end were written
StorePastEnd(past, bytes) ==
  [i \in 1..Len(past) |->
     IF DATA_CHUNK_SIZE + i <= Len(bytes) THEN bytes[DATA_CHUNK_SIZE + i] ELSE past[i]]

\* dataLength after its low bytes were overwritten by the bytes beyond the end
Clobbered(dl, bytes) ==
  LET old == Bytes32(dl)
      new == [i \in 1..4 |->
                IF DATA_CHUNK_SIZE + i <= Len(bytes) THEN bytes[DATA_CHUNK_SIZE + i]
                ELSE old[i]]
  IN byteArrayToInt(new, 4, "zero")

DecodeEffect(nb) ==
  /\ dataBuffer' = StoreDecoded(dataBuffer, Decoded)
  /\ dataPastEnd' = IF nb = "dataLength" THEN dataPastEnd
                    ELSE StorePastEnd(dataPastEnd, Decoded)

\* dataLength once b64ToInt has decoded into dataBuffer
DataLengthAfterDecode(nb) ==
  IF nb = "dataLength" /\ Len(Decoded) > DATA_CHUNK_SIZE
  THEN Clobbered(dataLength, Decoded) ELSE dataLength

\* b64ToInt: byteArrayToInt reads back the bytes decode_base64 has just written
b64ToInt(mode) == byteArrayToInt(Decoded, Len(Decoded), mode)

\* the bytes from dataBuffer[0] on whose contents are known: the buffer, then
\* the four bytes of dataLength or the bytes kept in past
Mapped(past, nb) ==
  DATA_CHUNK_SIZE + (IF nb = "dataLength" THEN 4 ELSE Len(past))

\* a read of len bytes at dataBuffer goes on into memory that holds other
\* objects, or none
ReadsUnmapped(past, len, nb) == UGt(len, Mapped(past, nb))

\* the first len bytes at dataBuffer, when dataLength holds dl and the byte of
\* dataNeedsHandling holds flag, as far as their contents are known: a read
\* that goes further yields the known bytes first, and what follows them is
\* whatever that memory holds
ReadData(buf, past, len, dl, flag, nb) ==
  [i \in 1..(IF ReadsUnmapped(past, len, nb) THEN Mapped(past, nb) ELSE len) |->
     IF i <= Len(buf) THEN buf[i]
     ELSE IF i <= DATA_CHUNK_SIZE THEN 0
     ELSE IF nb = "dataLength" THEN Bytes32(dl)[i - DATA_CHUNK_SIZE]
     ELSE IF nb = "dataNeedsHandling" /\ i = DATA_CHUNK_SIZE + 1 THEN flag
     ELSE past[i - DATA_CHUNK_SIZE]]

\* the end of handleData with messageLength left as it is
clearPayloadReady_keepLength ==
  /\ dataNeedsHandling' = FALSE
  /\ UNCHANGED <<messageLength, currRecvDataPos, halted>>

\* the last two statements of handleData
clearPayloadReady ==
  /\ messageLength' = 0
  /\ dataNeedsHandling' = FALSE
  /\ UNCHANGED <<currRecvDataPos, halted>>


(* ------------------------------------------------------------------ *)
(* The handlers                                                        *)
(* ------------------------------------------------------------------ *)
\* flash.getMaxPage(): the capacity in 256-byte pages
getMaxPage == flashSize \div 256

handleGetFlashInfo ==
  /\ \E JEDEC \in JEDECValues :
       out' = IF JEDEC = 0
              THEN <<Line("!", "ERROR: Connection to flash failed; check wiring.", <<>>)>>
              ELSE <<Line("#", "JEDEC ID: 0x", <<JEDEC>>),
                     Line("#", "Man ID: 0x", <<(JEDEC \div 65536) % 256>>),
                     Line("#", "Memory ID: 0x", <<(JEDEC \div 256) % 256>>),
                     Line("#", "Capacity: ", <<flashSize>>),
                     Line("#", "Max Pages: ", <<getMaxPage>>)>>
  /\ noSerial
  /\ flashLog' = <<>>
  /\ clearPayloadReady
  /\ UNCHANGED hostVars
  /\ UNCHANGED <<state, shouldDoErase, shouldDoWrite, fileSize, currentFlashOffset,
                 dataBuffer, dataLength, dataPastEnd, lastDigest>>

\* handleSetBaud rejecting the ceiling itself
handleSetBaud_rejectCeiling(mode, nb) ==
  LET baudRate == b64ToInt(mode)
  IN /\ DecodeEffect(nb)
     /\ dataLength' = DataLengthAfterDecode(nb)
     /\ IF ~UGt(MaxBaudRate, baudRate)
        THEN /\ out' = <<Line("!", "ERROR: Invalid baudrate", <<baudRate>>)>>
             /\ resetState(rx)
        ELSE /\ out' = <<>>
             /\ serialLog' = <<SerialEnd, SerialBegin(baudRate)>>
             /\ baud' = baudRate
             /\ WaitThenEnd(rx)
             /\ clearPayloadReady
             /\ UNCHANGED <<state, shouldDoErase, shouldDoWrite, fileSize>>
     /\ flashLog' = <<>>
     /\ UNCHANGED <<currentFlashOffset, lastDigest>>

handleSetBaud(mode, nb) ==
  LET baudRate == b64ToInt(mode)
  IN /\ DecodeEffect(nb)
     /\ dataLength' = DataLengthAfterDecode(nb)
     /\ IF UGt(baudRate, MaxBaudRate)
        THEN /\ out' = <<Line("!", "ERROR: Invalid baudrate", <<baudRate>>)>>
             /\ resetState(rx)
        ELSE /\ out' = <<>>
             /\ serialLog' = <<SerialEnd, SerialBegin(baudRate)>>
             /\ baud' = baudRate
             /\ WaitThenEnd(rx)
             /\ clearPayloadReady
             /\ UNCHANGED <<state, shouldDoErase, shouldDoWrite, fileSize>>
     /\ flashLog' = <<>>
     /\ UNCHANGED <<currentFlashOffset, lastDigest>>

handleSetErase(mode, nb) ==
  /\ shouldDoErase' = (b64ToInt(mode) # 0)
  /\ DecodeEffect(nb)
  /\ dataLength' = DataLengthAfterDecode(nb)
  /\ out' = <<>>
  /\ noSerial
  /\ flashLog' = <<>>
  /\ clearPayloadReady
  /\ UNCHANGED hostVars
  /\ UNCHANGED <<state, shouldDoWrite, fileSize, currentFlashOffset, lastDigest>>

handleSetWrite(mode, nb) ==
  /\ shouldDoWrite' = (b64ToInt(mode) # 0)
  /\ DecodeEffect(nb)
  /\ dataLength' = DataLengthAfterDecode(nb)
  /\ out' = <<>>
  /\ noSerial
  /\ flashLog' = <<>>
  /\ clearPayloadReady
  /\ UNCHANGED hostVars
  /\ UNCHANGED <<state, shouldDoErase, fileSize, currentFlashOffset, lastDigest>>

\* handleSetFileSize rejecting the capacity itself
handleSetFileSize_rejectCapacity(mode, nb) ==
  LET readValue == b64ToInt(mode)
  IN /\ DecodeEffect(nb)
     /\ dataLength' = DataLengthAfterDecode(nb)
     /\ IF ~UGt(flashSize, readValue)
        THEN /\ out' = <<Line("!", "ERROR: File size exceeds flash size", <<>>)>>
             /\ resetState(rx)
        ELSE /\ out' = <<>>
             /\ fileSize' = readValue
             /\ noSerial
             /\ clearPayloadReady
             /\ UNCHANGED hostVars
             /\ UNCHANGED <<state, shouldDoErase, shouldDoWrite>>
     /\ flashLog' = <<>>
     /\ UNCHANGED <<currentFlashOffset, lastDigest>>

handleSetFileSize(mode, nb) ==
  LET readValue == b64ToInt(mode)
  IN /\ DecodeEffect(nb)
     /\ dataLength' = DataLengthAfterDecode(nb)
     /\ IF UGt(readValue, flashSize)
        THEN /\ out' = <<Line("!", "ERROR: File size exceeds flash size", <<>>)>>
             /\ resetState(rx)
        ELSE /\ out' = <<>>
             /\ fileSize' = readValue
             /\ noSerial
             /\ clearPayloadReady
             /\ UNCHANGED hostVars
             /\ UNCHANGED <<state, shouldDoErase, shouldDoWrite>>
     /\ flashLog' = <<>>
     /\ UNCHANGED <<currentFlashOffset, lastDigest>>

\* the digest printed without the '@' in front of it
md5_untagged(bytes) == Line("", "md5", bytes)

\* md5 with its loop ending one byte early
md5_dropLast(bytes) == Line("@", "md5", SubSeq(bytes, 1, Len(bytes) - 1))

\* md5(): the digest, as a function of exactly the bytes fed to the builder
md5(bytes) == Line("@", "md5", bytes)

\* case RECV_FLASH_DATA
handleRecvFlashData(nb) ==
  LET n == Len(Decoded)
      written == StorePastEnd(dataPastEnd, Decoded)
      \* md5 reads what the decode has just written, the byte of
      \* dataNeedsHandling included
      hashed == ReadData(StoreDecoded(dataBuffer, Decoded), written, n, n, written[1],
                         nb)
  IN /\ DecodeEffect(nb)
     /\ dataLength' = n
     /\ IF n = 0
        THEN /\ out' = <<Line("!", "ERROR: Data length was 0 after conversion from base64",
                              <<>>)>>
             /\ resetState(rx)
             /\ UNCHANGED lastDigest
        ELSE /\ out' = <<md5(hashed)>>
             /\ lastDigest' = hashed
             /\ noSerial
             /\ clearPayloadReady
             /\ UNCHANGED hostVars
             /\ UNCHANGED <<state, shouldDoErase, shouldDoWrite, fileSize>>
     /\ flashLog' = <<>>
     /\ UNCHANGED currentFlashOffset

\* one flash call, with the status flash.error() returned after it
EraseCall(addr, status) ==
  [op |-> "eraseBlock32K", addr |-> addr, data |-> <<>>, status |-> status]

\* the loop bound ceil(flashSize / 32768): the division is the integer one
EraseBlocks(size) == size \div EraseBlockSize

\* eraseChip going on to the blocks after the failing one
eraseChip_noReturn ==
  /\ \E failAt \in 0..EraseBlocks(flashSize), err \in FlashErrors \ {0} :
       IF failAt < EraseBlocks(flashSize)
       THEN /\ flashLog' = [i \in 1..EraseBlocks(flashSize) |->
                              EraseCall(EraseBlockSize * (i - 1),
                                        IF i = failAt + 1 THEN err ELSE 0)]
            /\ out' = <<Line("#", "Erasing chip...", <<>>),
                        Line("!", "ERROR: Flash error during erase in block at",
                             <<EraseBlockSize * failAt, err>>)>>
            /\ resetState(rx)
       ELSE /\ flashLog' = [i \in 1..EraseBlocks(flashSize) |->
                              EraseCall(EraseBlockSize * (i - 1), 0)]
            /\ out' = <<Line("#", "Erasing chip...", <<>>),
                        Line("#", "Chip erased", <<>>)>>
            /\ noSerial
            /\ clearPayloadReady
            /\ UNCHANGED hostVars
            /\ UNCHANGED <<state, shouldDoErase, shouldDoWrite, fileSize>>
  /\ UNCHANGED <<currentFlashOffset, dataBuffer, dataLength, dataPastEnd, lastDigest>>

\* eraseChip(): block failAt is the first whose erase leaves a nonzero status
\* (none when failAt is the number of blocks)
eraseChip ==
  /\ \E failAt \in 0..EraseBlocks(flashSize), err \in FlashErrors \ {0} :
       IF failAt < EraseBlocks(flashSize)
       THEN /\ flashLog' = [i \in 1..(failAt + 1) |->
                              EraseCall(EraseBlockSize * (i - 1),
                                        IF i = failAt + 1 THEN err ELSE 0)]
            /\ out' = <<Line("#", "Erasing chip...", <<>>),
                        Line("!", "ERROR: Flash error during erase in block at",
                             <<EraseBlockSize * failAt, err>>)>>
            /\ resetState(rx)
       ELSE /\ flashLog' = [i \in 1..EraseBlocks(flashSize) |->
                              EraseCall(EraseBlockSize * (i - 1), 0)]
            /\ out' = <<Line("#", "Erasing chip...", <<>>),
                        Line("#", "Chip erased", <<>>)>>
            /\ noSerial
            /\ clearPayloadReady
            /\ UNCHANGED hostVars
            /\ UNCHANGED <<state, shouldDoErase, shouldDoWrite, fileSize>>
  /\ UNCHANGED <<currentFlashOffset, dataBuffer, dataLength, dataPastEnd, lastDigest>>

\* flash.writeByteArray(addr, data, len): data holds the bytes read as far as
\* their contents are known, len is the length passed
WriteCall(addr, data, len, status) ==
  [op |-> "writeByteArray", addr |-> addr, data |-> data, len |-> len,
   status |-> status]

\* writeData with the cursor advanced before the status is looked at
writeData_advanceFirst(data, len) ==
  \E flashErrNo \in FlashErrors :
    /\ flashLog' = <<WriteCall(currentFlashOffset, data, len, flashErrNo)>>
    /\ currentFlashOffset' = UAdd32(currentFlashOffset, len)
    /\ IF flashErrNo # 0
       THEN /\ out' = <<Line("!", "ERROR: Flash error during write in page at",
                             <<currentFlashOffset, flashErrNo>>)>>
            /\ resetState(rx)
       ELSE /\ out' = <<Line("#", "W_OK", <<>>)>>
            /\ noSerial
            /\ clearPayloadReady
            /\ UNCHANGED hostVars
            /\ UNCHANGED <<state, shouldDoErase, shouldDoWrite, fileSize>>

\* writeData(data, dataLength), then the return through handleDoFlash
writeData(data, len) ==
  \E flashErrNo \in FlashErrors :
    /\ flashLog' = <<WriteCall(currentFlashOffset, data, len, flashErrNo)>>
    /\ IF flashErrNo # 0
       THEN /\ out' = <<Line("!", "ERROR: Flash error during write in page at",
                             <<currentFlashOffset, flashErrNo>>)>>
            /\ resetState(rx)
            /\ UNCHANGED currentFlashOffset
       ELSE /\ out' = <<Line("#", "W_OK", <<>>)>>
            /\ currentFlashOffset' = UAdd32(currentFlashOffset, len)
            /\ noSerial
            /\ clearPayloadReady
            /\ UNCHANGED hostVars
            /\ UNCHANGED <<state, shouldDoErase, shouldDoWrite, fileSize>>

\* The read inside flash.writeByteArray leaves the memory the program owns
\* and faults: the call does not return and no later statement runs.
writeFaults ==
  /\ halted' = TRUE
  /\ flashLog' = <<>>
  /\ out' = <<>>
  /\ noSerial
  /\ UNCHANGED <<state, shouldDoErase, shouldDoWrite, fileSize, currentFlashOffset,
                 messageLength, currRecvDataPos, dataNeedsHandling, dataLength,
                 hostVars>>

\* handleDoFlash(): the write, then dataLength = 0 whatever the write did.
\* dataNeedsHandling is true, stored as 1, while handleData() runs. A write
\* whose length has the read go on past the memory after dataBuffer either
\* goes through, with whatever that memory holds, or faults.
handleDoFlash(nb) ==
  /\ \/ /\ writeData(ReadData(dataBuffer, dataPastEnd, dataLength, dataLength, 1, nb),
                      dataLength)
        /\ dataLength' = 0
     \/ /\ ReadsUnmapped(dataPastEnd, dataLength, nb)
        /\ writeFaults
  /\ UNCHANGED <<dataBuffer, dataPastEnd, lastDigest>>

\* case RESET_STATE
handleResetState ==
  /\ resetState(rx)
  /\ out' = <<>>
  /\ flashLog' = <<>>
  /\ UNCHANGED <<currentFlashOffset, dataBuffer, dataLength, dataPastEnd, lastDigest>>

\* case NONE
handleNone ==
  /\ out' = <<>>
  /\ noSerial
  /\ flashLog' = <<>>
  /\ clearPayloadReady
  /\ UNCHANGED hostVars
  /\ UNCHANGED <<state, shouldDoErase, shouldDoWrite, fileSize, currentFlashOffset,
                 dataBuffer, dataLength, dataPastEnd, lastDigest>>

(* ------------------------------------------------------------------ *)
(* loop(): handleData() runs once the framer has drained the transport *)
(* and a payload is ready                                              *)
(* ------------------------------------------------------------------ *)
\* the outcomes of the shifts for the payload being handled
ShiftModesNow == ShiftModes(Decoded, Len(Decoded))

\* the layouts that can differ for the step: they do once a decode writes, or
\* a do-flash reads, past DATA_CHUNK_SIZE bytes
NeighboursNow ==
  IF Len(Decoded) > DATA_CHUNK_SIZE \/ UGt(dataLength, DATA_CHUNK_SIZE)
  THEN Neighbours ELSE {"padding"}

HandleData ==
  /\ ~halted
  /\ rx = <<>>
  /\ dataNeedsHandling
  /\ lastOp' = state
  /\ lastStore' = -1
  /\ \E mode \in ShiftModesNow, nb \in NeighboursNow :
       CASE state = SET_BAUD -> handleSetBaud(mode, nb)
         [] state = SET_ERASE -> handleSetErase(mode, nb)
         [] state = SET_WRITE -> handleSetWrite(mode, nb)
         [] state = SET_FILE_SIZE -> handleSetFileSize(mode, nb)
         [] state = RECV_FLASH_DATA -> handleRecvFlashData(nb)
         [] state = DO_ERASE -> eraseChip
         [] state = DO_FLASH -> handleDoFlash(nb)
         [] state = RESET_STATE -> handleResetState
         [] state = SEND_FLASH_INFO -> handleGetFlashInfo
         [] state = NONE -> handleNone
  /\ UNCHANGED <<flashSize, receivedMessage, closedFrame>>

Next ==
  \/ HostSend
  \/ RecvSelector
  \/ RecvEndMarker
  \/ RecvPayload
  \/ HandleData

Spec == Init /\ [][Next]_vars


(* ------------------------------------------------------------------ *)
(* Vocabulary of the properties                                        *)
(* ------------------------------------------------------------------ *)
\* the step is handleData() dispatching cmd
Dispatch(cmd) ==
  /\ rx = <<>>
  /\ dataNeedsHandling
  /\ ~dataNeedsHandling'
  /\ state = cmd

\* the step is the host's: only the host lengthens the receive queue
HostStep == Len(rx') > Len(rx)

\* the step is one pass of the framer's loop storing a payload byte
StoresPayload ==
  /\ ~HostStep
  /\ rx # <<>>
  /\ Head(rx) \notin SelectorBytes
  /\ Head(rx) # endMarker

ResetLog == <<SerialEnd, SerialBegin(INITIAL_SERIAL_BAUD_RATE)>>

\* the latest step ran resetState()
ResetRan == serialLog = ResetLog /\ (lastOp = SET_BAUD => out # <<>>)

\* what resetState() leaves: no pending command, flags down, no file size,
\* framing state empty
SessionReset ==
  /\ state = NONE
  /\ shouldDoErase = FALSE
  /\ shouldDoWrite = FALSE
  /\ fileSize = 0
  /\ currRecvDataPos = 0
  /\ messageLength = 0
  /\ dataNeedsHandling = FALSE

ErrorLines(lines) == {i \in 1..Len(lines) : lines[i].tag = "!"}

(* ------------------------------------------------------------------ *)
(* C1                                                                  *)
(* ------------------------------------------------------------------ *)
\* C1: once resetState() has run (the reset command, or an error forcing it),
\* the Session is the initial one: the write cursor is 0, both flags are
\* false, the file size is 0, no command is pending, and the fill cursor and
\* the payload length are 0 with payload-ready false.
C1_ResetYieldsInitialSession ==
  ResetRan => (currentFlashOffset = 0 /\ SessionReset)

(* ------------------------------------------------------------------ *)
(* C2                                                                  *)
(* ------------------------------------------------------------------ *)
\* C2: a do-flash dispatch advances the write cursor by exactly dataLength
\* when the device reports status 0 and leaves it alone when the status is
\* nonzero; no other step changes the write cursor.
C2_WriteCursorAdvance ==
  [][ /\ Dispatch(DO_FLASH) =>
           /\ Len(flashLog') = 1
           /\ flashLog'[1].len = dataLength
           /\ flashLog'[1].status = 0 =>
                currentFlashOffset' = currentFlashOffset + dataLength
           /\ flashLog'[1].status # 0 =>
                currentFlashOffset' = currentFlashOffset
      /\ currentFlashOffset' # currentFlashOffset =>
           /\ Dispatch(DO_FLASH)
           /\ flashLog'[1].status = 0
           /\ currentFlashOffset' > currentFlashOffset ]_vars

\* a chunk was written and the cursor stands after it
C2_Witness ==
  /\ lastOp = DO_FLASH
  /\ flashLog # <<>>
  /\ flashLog[1].status = 0
  /\ flashLog[1].data = HostChunk
  /\ currentFlashOffset = Len(HostChunk)

(* ------------------------------------------------------------------ *)
(* C3                                                                  *)
(* ------------------------------------------------------------------ *)
\* C3: the bytes a do-flash writes to the device are the bytes whose digest
\* the latest receive-flash-chunk printed, whatever was dispatched in between.
C3_ChunkRetainedUntilDoFlash ==
  (lastOp = DO_FLASH /\ flashLog # <<>> /\ flashLog[1].data # <<>>)
    => flashLog[1].data = lastDigest

(* ------------------------------------------------------------------ *)
(* C4                                                                  *)
(* ------------------------------------------------------------------ *)
\* C4: a payload byte that brings the payload to a length below
\* MESSAGE_MAX_SIZE prints nothing and resets nothing; one that brings it to
\* MESSAGE_MAX_SIZE or beyond prints the overflow error and resets the session.
C4_OverflowThreshold ==
  (lastOp = "recv" /\ lastStore >= 0) =>
     IF lastStore + 1 < MESSAGE_MAX_SIZE
     THEN out = <<>> /\ serialLog = <<>> /\ currRecvDataPos = lastStore + 1
     ELSE out = <<OverflowLine>> /\ serialLog = ResetLog /\ SessionReset

(* ------------------------------------------------------------------ *)
(* C5                                                                  *)
(* ------------------------------------------------------------------ *)
\* C5: the framer stores every payload byte at an index within
\* 0..MESSAGE_MAX_SIZE-1, and the buffer never holds more than
\* MESSAGE_MAX_SIZE bytes.
C5_PayloadBufferBound ==
  /\ lastStore < MESSAGE_MAX_SIZE
  /\ currRecvDataPos <= MESSAGE_MAX_SIZE
  /\ messageLength <= MESSAGE_MAX_SIZE
  /\ Len(receivedMessage) <= MESSAGE_MAX_SIZE


(* ------------------------------------------------------------------ *)
(* C6                                                                  *)
(* ------------------------------------------------------------------ *)
\* C6: set-file-size stores a decoded value up to the device capacity, the
\* capacity itself included, and prints nothing; for a larger value it prints
\* one error line, resets the session and does not store the value. The file
\* size never exceeds the device capacity.
C6_FileSizeBound ==
  /\ [](~UGt(fileSize, flashSize))
  /\ [][ Dispatch(SET_FILE_SIZE) =>
           \E mode \in ShiftModesNow :
             LET v == b64ToInt(mode)
             IN IF UGt(v, flashSize)
                THEN /\ Len(out') = 1
                     /\ out'[1].tag = "!"
                     /\ serialLog' = ResetLog
                     /\ SessionReset'
                     /\ fileSize' # v
                ELSE /\ out' = <<>>
                     /\ fileSize' = v
                     /\ serialLog' = <<>> ]_vars

\* the capacity itself was sent and is stored
C6_Witness ==
  /\ lastOp = SET_FILE_SIZE
  /\ out = <<>>
  /\ fileSize = flashSize

(* ------------------------------------------------------------------ *)
(* C7                                                                  *)
(* ------------------------------------------------------------------ *)
\* C7, as claimed: set-baud with a value above 921600 prints one error line,
\* resets the Session and neither closes nor reopens the transport; with a
\* value up to 921600 it closes the transport, reopens it at that rate and
\* prints nothing.
C7_NoReconfigurationOnReject ==
  [][ Dispatch(SET_BAUD) =>
        \E mode \in ShiftModesNow :
          LET v == b64ToInt(mode)
          IN IF UGt(v, MaxBaudRate)
             THEN /\ Len(out') = 1
                  /\ out'[1].tag = "!"
                  /\ SessionReset'
                  /\ serialLog' = <<>>
             ELSE /\ out' = <<>>
                  /\ serialLog' = <<SerialEnd, SerialBegin(v)>>
                  /\ baud' = v ]_vars

\* C7, amended: set-baud with a value above 921600 prints one error line and
\* resets the Session; the reset closes the transport and reopens it at the
\* initial rate 9600, never at the rejected rate. With a value up to 921600
\* it closes the transport, reopens it at that rate and prints nothing.
C7_RejectReopensAtInitialRate ==
  [][ Dispatch(SET_BAUD) =>
        \E mode \in ShiftModesNow :
          LET v == b64ToInt(mode)
          IN IF UGt(v, MaxBaudRate)
             THEN /\ Len(out') = 1
                  /\ out'[1].tag = "!"
                  /\ SessionReset'
                  /\ serialLog' = ResetLog
                  /\ baud' = INITIAL_SERIAL_BAUD_RATE
             ELSE /\ out' = <<>>
                  /\ serialLog' = <<SerialEnd, SerialBegin(v)>>
                  /\ baud' = v ]_vars

\* a rate above the ceiling was rejected
C7_Witness ==
  /\ lastOp = SET_BAUD
  /\ out # <<>>
  /\ out[1].args = <<MaxBaudRate + 1>>
  /\ serialLog = ResetLog

(* ------------------------------------------------------------------ *)
(* C8                                                                  *)
(* ------------------------------------------------------------------ *)
\* C8: when the erase of block k leaves a nonzero status, do-erase has erased
\* blocks 0..k in order and no block after k, has printed exactly one error
\* line, naming offset 32768 * k and the status, has not printed the
\* completion message, and has reset the session.
C8_EraseStopsAtFirstFailure ==
  (lastOp = DO_ERASE /\ \E i \in 1..Len(flashLog) : flashLog[i].status # 0) =>
     LET k == Len(flashLog) - 1
     IN /\ \A i \in 1..Len(flashLog) :
             /\ flashLog[i].op = "eraseBlock32K"
             /\ flashLog[i].addr = EraseBlockSize * (i - 1)
             /\ (flashLog[i].status # 0) = (i = k + 1)
        /\ Cardinality(ErrorLines(out)) = 1
        /\ \A i \in ErrorLines(out) :
             out[i].args = <<EraseBlockSize * k, flashLog[k + 1].status>>
        /\ \A i \in 1..Len(out) : out[i].text # "Chip erased"
        /\ serialLog = ResetLog
        /\ SessionReset

\* the erase failed at the second block, with a block after it left alone
C8_Witness ==
  /\ lastOp = DO_ERASE
  /\ Len(flashLog) = 2
  /\ flashLog[2].status # 0
  /\ Len(flashLog) < EraseBlocks(flashSize)
  /\ ErrorLines(out) # {}

(* ------------------------------------------------------------------ *)
(* C9                                                                  *)
(* ------------------------------------------------------------------ *)
\* C9: when do-erase ends with the completion message, the blocks were erased
\* in increasing order from offset 0 and every offset in 0..flashSize-1 lies
\* in an erased block.
C9_EraseCoversDevice ==
  (lastOp = DO_ERASE /\ \E i \in 1..Len(out) : out[i].text = "Chip erased") =>
     /\ \A i \in 1..Len(flashLog) : flashLog[i].addr = EraseBlockSize * (i - 1)
     /\ \A b \in 0..(flashSize - 1) :
          \E i \in 1..Len(flashLog) :
            flashLog[i].addr <= b /\ b < flashLog[i].addr + EraseBlockSize

(* ------------------------------------------------------------------ *)
(* C10                                                                 *)
(* ------------------------------------------------------------------ *)
\* the step detects an error that forces a reset, in a build whose shifts
\* behave as mode says
DetectsError(mode) ==
  \/ StoresPayload /\ Overflowed(currRecvDataPos + 1)
  \/ Dispatch(RECV_FLASH_DATA) /\ Len(Decoded) = 0
  \/ Dispatch(SET_BAUD) /\ UGt(b64ToInt(mode), MaxBaudRate)
  \/ Dispatch(SET_FILE_SIZE) /\ UGt(b64ToInt(mode), flashSize)
  \/ Dispatch(DO_ERASE) /\ \E i \in 1..Len(flashLog') : flashLog'[i].status # 0
  \/ Dispatch(DO_FLASH) /\ \E i \in 1..Len(flashLog') : flashLog'[i].status # 0

\* the step is an identification query that failed
IdentFails ==
  Dispatch(SEND_FLASH_INFO) /\ ErrorLines(out') # {}

\* C10: a step that detects a framing overflow, a zero-length chunk, a baud
\* above the ceiling, a file size above the capacity or a nonzero device
\* status prints exactly one error line and ends with the session reset; a
\* failed identification query prints one error line and nothing else and
\* leaves the Session fields as they were; no other step prints an error line.
\* Where the decoded integer depends on a shift the language leaves undefined,
\* the step is the one of some build.
C10_ErrorPolicy ==
  [][ \E mode \in ShiftModesNow :
        /\ DetectsError(mode) =>
             /\ Cardinality(ErrorLines(out')) = 1
             /\ serialLog' = ResetLog
             /\ SessionReset'
        /\ IdentFails =>
             /\ Len(out') = 1
             /\ serialLog' = <<>>
             /\ UNCHANGED <<state, shouldDoErase, shouldDoWrite, fileSize,
                            currentFlashOffset, dataBuffer, dataLength>>
        /\ (~HostStep /\ ErrorLines(out') # {}) =>
             (DetectsError(mode) \/ IdentFails) ]_vars

\* a zero-length chunk forced a reset, after an earlier payload had been decoded
C10_Witness ==
  /\ lastOp = RECV_FLASH_DATA
  /\ ErrorLines(out) # {}
  /\ SessionReset
  /\ lastDigest = <<>>
  /\ dataBuffer # <<>>

(* ------------------------------------------------------------------ *)
(* C11                                                                 *)
(* ------------------------------------------------------------------ *)
\* the step is one pass of the framer's loop consuming a terminator
ConsumesTerminator ==
  /\ ~HostStep
  /\ rx # <<>>
  /\ Head(rx) = endMarker

\* C11: every terminator the framer consumes gets a dispatch of its own, keyed
\* on the command pending at that terminator: no terminator is consumed while
\* the frame closed before it still waits for its dispatch, and each dispatch
\* switches on the command that was pending when its frame was closed.
C11_OneDispatchPerFrame ==
  [][ /\ ConsumesTerminator => ~dataNeedsHandling
      /\ Dispatch(state) => state = closedFrame.cmd ]_vars

(* ------------------------------------------------------------------ *)
(* C12                                                                 *)
(* ------------------------------------------------------------------ *)
\* the latest step of the firmware was a dispatch, and handleData() returned
\* from it
Dispatched == lastOp \notin {"setup", "recv"} /\ ~halted

\* C12: when handleData() has returned, whatever command it switched on and
\* whether it ended in success, in an error with a reset or in the NONE case,
\* payload-ready is false and the recorded payload length is 0.
C12_PayloadReadyCleared ==
  Dispatched => (~dataNeedsHandling /\ messageLength = 0)

\* a set-baud frame with a payload was dispatched and ended in an error
C12_Witness ==
  /\ lastOp = SET_BAUD
  /\ closedFrame.cmd = SET_BAUD
  /\ closedFrame.payload # <<>>
  /\ ErrorLines(out) # {}
  /\ messageLength = 0

(* ------------------------------------------------------------------ *)
(* C13                                                                 *)
(* ------------------------------------------------------------------ *)
\* the step is one pass of the framer's loop consuming a selector byte
ConsumesSelector ==
  /\ ~HostStep
  /\ rx # <<>>
  /\ Head(rx) \in SelectorBytes

\* C13: consuming a selector byte makes its command the pending one, whatever
\* was pending before, and leaves the payload buffer, the fill cursor, the
\* recorded payload length, payload-ready and the other Session fields alone.
C13_SelectorReplacesPending ==
  [][ ConsumesSelector =>
        /\ state' = SelectorOf[Head(rx)]
        /\ UNCHANGED <<receivedMessage, currRecvDataPos, messageLength,
                       dataNeedsHandling, shouldDoErase, shouldDoWrite, fileSize,
                       currentFlashOffset, dataBuffer, dataLength>> ]_vars

\* a selector replaced the command of a closed frame not yet dispatched
C13_Witness ==
  /\ lastOp = "recv"
  /\ lastStore = -1
  /\ dataNeedsHandling
  /\ closedFrame.cmd # NONE
  /\ state # NONE
  /\ state # closedFrame.cmd
  /\ messageLength = Len(closedFrame.payload)
  /\ closedFrame.payload # <<>>

(* ------------------------------------------------------------------ *)
(* C14                                                                 *)
(* ------------------------------------------------------------------ *)
\* the chunks whose transfer is followed from the host's raw bytes to the digest
RawChunks == {HostChunk, HostMaxChunk}

\* the chunks whose encoding ends in padding of either length, over the
\* extreme byte values
ShortChunks ==
  UNION {[1..n -> {0, 255}] : n \in 1..2}

\* the payload handleData() is about to decode
Payload == SubSeq(receivedMessage, 1, messageLength)

\* C14: a receive-flash-chunk dispatch whose payload decodes to no byte prints
\* one error line and resets the session; otherwise it prints exactly one
\* checksum line. For a payload that is the base64 text of N raw bytes, N from
\* 1 to DATA_CHUNK_SIZE, the digest on that line is taken over exactly those N
\* bytes, and dataBuffer holds them with dataLength = N.
C14_ChunkDigest ==
  [][ Dispatch(RECV_FLASH_DATA) =>
        LET n == Len(Decoded)
        IN /\ n = 0 => /\ Len(out') = 1
                       /\ out'[1].tag = "!"
                       /\ serialLog' = ResetLog
                       /\ SessionReset'
           /\ n > 0 => /\ Len(out') = 1
                       /\ out'[1].tag = "@"
           /\ (n > 0 /\ n <= DATA_CHUNK_SIZE) =>
                /\ out'[1].args = Decoded
                /\ dataLength' = n
                /\ SubSeq(dataBuffer', 1, n) = Decoded
           /\ \A raw \in RawChunks :
                (messageLength = 4 * ((Len(raw) + 2) \div 3) /\ Payload = Base64Encode(raw))
                  => /\ out'[1].args = raw
                     /\ dataLength' = Len(raw)
                     /\ SubSeq(dataBuffer', 1, Len(raw)) = raw
           /\ \A raw \in ShortChunks :
                LET text == Base64Encode(raw)
                IN decode_base64(text, Len(text)) = raw ]_vars

\* the largest chunk was received: its digest was printed and dataBuffer is full
C14_Witness ==
  /\ lastOp = RECV_FLASH_DATA
  /\ closedFrame.payload = Base64Encode(HostMaxChunk)
  /\ Len(out) = 1
  /\ out[1].tag = "@"
  /\ lastDigest = HostMaxChunk
  /\ dataLength = DATA_CHUNK_SIZE

(* ------------------------------------------------------------------ *)
(* C15                                                                 *)
(* ------------------------------------------------------------------ *)
\* '!' error, '@' checksum, '#' information
Tags == {"!", "@", "#"}

\* C15: every line the firmware prints, in the framer and in every handler,
\* begins with one of the tags '!', '@' and '#'.
C15_EveryLineTagged ==
  \A i \in 1..Len(out) : out[i].tag \in Tags

\* an erase printed an informational line and then an error line
C15_Witness ==
  /\ lastOp = DO_ERASE
  /\ Len(out) = 2
  /\ out[1].tag = "#"
  /\ out[2].tag = "!"

(* ------------------------------------------------------------------ *)
(* C16                                                                 *)
(* ------------------------------------------------------------------ *)
\* C16: do-erase and do-flash consult the flags that set-erase-flag and
\* set-write-flag store: a do-erase dispatched with shouldDoErase false erases
\* no block, and a do-flash dispatched with shouldDoWrite false writes nothing.
C16_FlagsConsulted ==
  [][ /\ (Dispatch(DO_ERASE) /\ ~shouldDoErase) => flashLog' = <<>>
      /\ (Dispatch(DO_FLASH) /\ ~shouldDoWrite) => flashLog' = <<>> ]_vars

(* ------------------------------------------------------------------ *)
(* C17                                                                 *)
(* ------------------------------------------------------------------ *)
\* the terminator of the closed frame was consumed right after a dispatch,
\* with no selector and no payload byte in between
BareTerminator == closedFrame.after \notin {"setup", "recv"}

\* C17: the pending command changes only when a selector byte is consumed or
\* the session is reset. A terminator records the fill cursor as the payload
\* length, sets payload-ready, zeroes the fill cursor and leaves the pending
\* command; a dispatch that ends without a reset leaves it too; so a
\* terminator that follows a dispatch with no selector in between leads to a
\* dispatch of the same command.
C17_PendingCommandPersists ==
  [][ /\ ConsumesTerminator =>
           /\ state' = state
           /\ messageLength' = currRecvDataPos
           /\ dataNeedsHandling'
           /\ currRecvDataPos' = 0
      /\ (Dispatch(state) /\ ~ResetRan') => state' = state
      /\ state' # state => \/ ConsumesSelector
                           \/ ResetRan' /\ state' = NONE
      /\ (Dispatch(state) /\ BareTerminator /\ state = closedFrame.cmd) =>
           state \in {closedFrame.after, NONE} ]_vars

\* a bare terminator after a do-erase led to a second do-erase
C17_Witness ==
  /\ lastOp = DO_ERASE
  /\ closedFrame.after = DO_ERASE
  /\ closedFrame.cmd = DO_ERASE
  /\ flashLog # <<>>
  /\ state = DO_ERASE

(* ------------------------------------------------------------------ *)
(* C18                                                                 *)
(* ------------------------------------------------------------------ *)
\* C18: every do-flash dispatch, whether the device write succeeds or fails,
\* leaves dataLength = 0. dataLength changes in a receive-flash-chunk or a
\* do-flash dispatch only, so a do-flash with no chunk received since the
\* do-flash before it writes zero bytes and leaves the write cursor alone.
C18_DoFlashConsumesChunk ==
  [][ /\ Dispatch(DO_FLASH) => dataLength' = 0
      /\ dataLength' # dataLength =>
           (Dispatch(RECV_FLASH_DATA) \/ Dispatch(DO_FLASH))
      /\ (Dispatch(DO_FLASH) /\ dataLength = 0) =>
           /\ Len(flashLog') = 1
           /\ flashLog'[1].data = <<>>
           /\ currentFlashOffset' = currentFlashOffset ]_vars

(* ------------------------------------------------------------------ *)
(* C19                                                                 *)
(* ------------------------------------------------------------------ *)
\* C19: for every payload the framer accepts without an overflow reset, a
\* receive-flash-chunk dispatch decodes at most DATA_CHUNK_SIZE bytes, the size
\* of dataBuffer.
C19_DecodedChunkBound ==
  lastOp = RECV_FLASH_DATA => ~UGt(dataLength, DATA_CHUNK_SIZE)

(* ------------------------------------------------------------------ *)
(* C20                                                                 *)
(* ------------------------------------------------------------------ *)
\* C20: when handleData() runs, the command it switches on and the first
\* messageLength bytes of receivedMessage it reads are the command and the
\* payload of the frame whose terminator set payload-ready; what the framer
\* consumed after that terminator has changed neither.
C20_DispatchCoherence ==
  [][ Dispatch(state) =>
        /\ state = closedFrame.cmd
        /\ messageLength = Len(closedFrame.payload)
        /\ Payload = closedFrame.payload ]_vars

====
